---- MODULE Spec2Model ----
(***************************************************************************)
(* A model of the render-session core of swagl: the active-program slot   *)
(* and its end-of-render callbacks (Program.js), the per-render cache of   *)
(* a ProgramInput (ProgramInput.js), the matrix stack (MatrixStack) and    *)
(* the clean-up registry (raii).                                           *)
(*                                                                         *)
(* The library is synchronous and re-entrant: it calls closures of its     *)
(* caller (the render code, the end-of-render callbacks, the subrender     *)
(* code) and these closures call the library again.  The model keeps the   *)
(* JavaScript call stack in `frames`; between two actions the control is   *)
(* always inside caller code, which may perform any library call, return   *)
(* or throw.  Every library call is one action, up to the point where it   *)
(* hands the control to a closure of the caller.                           *)
(***************************************************************************)
EXTENDS Integers, Sequences, FiniteSets, TLC

\* ------------------------------------------------------------------ bounds
\* the depth of the matrix stack, the closures of the caller that wait in
\* codeOnRenderEnd, and the depth of nested subrender calls
MaxStack == 3
MaxUserCallbacks == 1
MaxNest == 1
\* the clean-up closures registered in all, and the depth of nested
\* runAndCleanOnError / buildCleanable / cleanUpObject calls
MaxClosures == 2
MaxScopes == 2

\* ------------------------------------------------------- values and fixtures
Null == "null"

Programs == {"P1", "P2"}
Inputs == {"U", "V"}

\* Program.inputSet: the inputs a Program was constructed with.
InputSet(p) == IF p = "P1" THEN {"U", "V"} ELSE {"V"}

\* The uniforms the linked shaders of a Program really hold:
\* gl.getUniformLocation(program.glProgram, name) is null for the others.
ShaderUniforms(p) == IF p = "P1" THEN {"U"} ELSE {"V"}

\* Program.gl: the context the Program is attached to.
ProgramGL(p) == IF p = "P1" THEN "gl1" ELSE "gl2"

\* The errors caller code throws: in the code of a render, in an
\* end-of-render callback and in the code of a subrender.  The library never
\* looks into an error, so one of each kind is enough to tell them apart.
RenderErrors == {"E1"}
\* what the code given to renderInProgram may return
Undefined == "undefined"
ReturnValues == {Undefined, "r1"}
CallbackErrors == {"E2"}
SubrenderErrors == {"E3"}

\* The inputs caller code hands to useMatrixStack.
StackInputs == {"V"}

\* The objects caller code builds and cleans up, and the errors its
\* clean-up closures and its building code throw.
Handles == {"h1", "h2"}
ClosureErrors == {"X1", "X2"}
BuildErrors == {"B1"}
\* makeAndLinkProgram: the Program objects it may construct, and the texts
\* getShaderInfoLog / getProgramInfoLog may give
LinkedPrograms == {"L1", "L2"}
InfoLogs == {"log1", "log2"}
ErrNotInScope == "onCleanUp called outside of runAndCleanOnError call"
ErrNonObject == "buildCleanable given non-object result"

ErrNested == "renderInProgram called during another renderInProgram"
ErrOutside == "onRenderComplete called outside of renderInProgram"
ErrNoProgram == "ProgramInput.set called without any program rendering"
ErrOtherProgram == "ProgramInput.set called during a different program"
ErrNoUniform == "No Uniform Variable"
ErrInUse == "useMatrixStack called while already being used"
ErrNoUse == "MatrixStack operation invoked outside of a render that called useMatrixStack"
ErrNoRender == "MatrixStack operation invoked outside of a render"
ErrTypeError == "TypeError"

\* prettier-ignore
IDENTITY == << 1, 0, 0, 0,
               0, 1, 0, 0,
               0, 0, 1, 0,
               0, 0, 0, 1 >>

\* The matrices caller code passes in: a shift by (1,0,0) and a scaling by
\* (2,1,1) in the layout of the library (they do not commute).  Caller code
\* pushes MatA absolutely, composes with MatB and sets inputs to MatA.
MatA == << 1, 0, 0, 0,
           0, 1, 0, 0,
           0, 0, 1, 0,
           1, 0, 0, 1 >>
MatB == << 2, 0, 0, 0,
           0, 1, 0, 0,
           0, 0, 1, 0,
           0, 0, 0, 1 >>
AbsoluteMatrices == {MatA}
ComposedMatrices == {MatB}
SetMatrices == {MatA}

\* The value of a uniform that was never written.
NoMatrix == << >>

\* A WebGLUniformLocation is a pair << program, uniform >>; null is << >>.
NoLoc == << >>


VARIABLES
  activeProgram,    \* Program.js: let activeProgram
  codeOnRenderEnd,  \* Program.js: let codeOnRenderEnd; << >> stands for null
                    \* (the code never holds an empty array)
  maybeGL,          \* ProgramInput.maybeGL, per input
  maybeLoc,         \* ProgramInput.maybeLoc, per input
  activeInput,      \* MatrixStack: let activeInput
  matrixStack,      \* MatrixStack: const matrixStack
  frames,           \* the call stack of library calls that wait for caller code
  written,          \* per input, the matrix of its last uniformMatrix4fv
  pending,          \* the callbacks accepted and not called yet, in the
                    \* order of their acceptance (an observer's own list)
  invoked,          \* the callbacks the last library call called
  bodyOutcome,      \* how the render code of the current/last render ended
  ev,               \* what the last library call did
  CLEANABLES,       \* raii: const CLEANABLES, per object
  activeCleanupCode, \* raii: let activeCleanupCode; the array of the scope
                    \* whose frame is frames[activeCleanupCode], 0 for null
  registered,       \* the number of clean-up closures registered so far
  lastClean,        \* what an observer notes of the last cleanUpObject
  lastScope,        \* what an observer notes of the last runAndCleanOnError /
                    \* buildCleanable that ended
  runs,             \* per clean-up closure, the number of its calls
  failedClean,      \* the objects whose last cleanUpObject threw, and that
                    \* no buildCleanable returned since
  gpu,              \* per makeAndLinkProgram call (named by the Program it
                    \* constructs) and WebGL object of it: whether it was
                    \* created, and the number of its deleteShader /
                    \* deleteProgram calls
  lastLink          \* the inputs of the last makeAndLinkProgram

sessionVars == << activeProgram, codeOnRenderEnd, maybeGL, maybeLoc,
                  activeInput, matrixStack, written, pending, invoked,
                  bodyOutcome >>
linkVars == << gpu, lastLink >>
raiiVars == << CLEANABLES, activeCleanupCode, registered, lastClean,
              lastScope, runs, failedClean, linkVars >>
vars == << sessionVars, frames, ev, raiiVars >>

\* ------------------------------------------------- the state as one record
\* Library code is sequential: each function below takes the state before
\* and gives the state after.  `thrown` is the pending exception (Null when
\* the code completed), `glc` the functions called on the WebGL context.
\*
\* bodyOutcome observes one render: it is set while the render runs, stands
\* in the state its return leaves, and is cleared by the next call.

Cur ==
  [ activeProgram |-> activeProgram, codeOnRenderEnd |-> codeOnRenderEnd,
    maybeGL |-> maybeGL, maybeLoc |-> maybeLoc, activeInput |-> activeInput,
    matrixStack |-> matrixStack, written |-> written,
    pending |-> pending, invoked |-> << >>,
    renderCodeRuns |-> \E k \in DOMAIN frames :
                          frames[k].kind = "render" /\ frames[k].phase = "body",
    glc |-> {}, thrown |-> Null ]

Commit(s) ==
  /\ activeProgram' = s.activeProgram
  /\ codeOnRenderEnd' = s.codeOnRenderEnd
  /\ maybeGL' = s.maybeGL
  /\ maybeLoc' = s.maybeLoc
  /\ activeInput' = s.activeInput
  /\ matrixStack' = s.matrixStack
  /\ written' = s.written
  /\ pending' = s.pending
  /\ invoked' = s.invoked

Throw(s, e) == [s EXCEPT !.thrown = e]
Ok(s) == s.thrown = Null

\* --------------------------------------------------------------- Program.js

\* getProgram()
GetProgram(s) == s.activeProgram

\* A callback as it sits in codeOnRenderEnd.  kind "user" is a closure of the
\* caller, "clearInput" the closure of ProgramInput.loadGL, "resetStack" the
\* closure of useMatrixStack.
Callback(kind, input) == [kind |-> kind, input |-> input]

\* onRenderComplete(code)
OnRenderComplete(s, kind, input) ==
  IF s.activeProgram = Null
    THEN Throw(s, ErrOutside)
    ELSE [s EXCEPT !.codeOnRenderEnd = Append(@, Callback(kind, input)),
                   !.pending = Append(@, [cb |-> Callback(kind, input),
                                          inBody |-> s.renderCodeRuns])]

\* ---------------------------------------------------------- ProgramInput.js

\* ProgramInput.loadGL()
LoadGL(s, i) ==
  IF s.maybeGL[i] # Null THEN s
  ELSE LET program == GetProgram(s) IN
    IF program = Null THEN Throw(s, ErrNoProgram)
    ELSE IF i \notin InputSet(program) THEN Throw(s, ErrOtherProgram)
    ELSE LET s1 == [s EXCEPT !.glc = @ \cup {"getUniformLocation"}] IN
      IF i \notin ShaderUniforms(program) THEN Throw(s1, ErrNoUniform)
      ELSE OnRenderComplete(
             [s1 EXCEPT !.maybeGL[i] = ProgramGL(program),
                        !.maybeLoc[i] = << program, i >>],
             "clearInput", i)

\* Mat4fv.setMatrix(matrix)
SetMatrix(s, i, matrix) ==
  LET s1 == LoadGL(s, i) IN
    IF ~Ok(s1) THEN s1
    ELSE [s1 EXCEPT !.glc = @ \cup {"uniformMatrix4fv"},
                    !.written[i] = matrix]

\* ------------------------------------------------------------- MatrixStack

\* A useMatrixStack without its first check.
UseMatrixStackUnchecked(s, input) ==
  LET s1 == OnRenderComplete(s, "resetStack", Null) IN
    IF ~Ok(s1) THEN s1
    ELSE SetMatrix([s1 EXCEPT !.activeInput = input], input, IDENTITY)

\* useMatrixStack(input)
UseMatrixStack(s, input) ==
  IF s.activeInput # Null THEN Throw(s, ErrInUse)
  ELSE LET s1 == OnRenderComplete(s, "resetStack", Null) IN
    IF ~Ok(s1) THEN s1
    ELSE SetMatrix([s1 EXCEPT !.activeInput = input], input, IDENTITY)

\* assertInputNotNull(): the state with the error pending, or unchanged
AssertInputNotNull(s) ==
  IF s.activeInput = Null
    THEN Throw(s, IF GetProgram(s) # Null THEN ErrNoUse ELSE ErrNoRender)
    ELSE s

\* lastInStack()
LastInStack(s) == s.matrixStack[Len(s.matrixStack)]

\* applyAbsoluteMatrixOperation(matrix)
ApplyAbsoluteMatrixOperation(s, matrix) ==
  LET s1 == AssertInputNotNull(s) IN
    IF ~Ok(s1) THEN s1
    ELSE SetMatrix([s1 EXCEPT !.matrixStack = Append(@, matrix)],
                   s1.activeInput, matrix)

\* A product with its factors exchanged.
MatMulSwapped(A, B) ==
  [n \in 1..16 |->
     LET r == (n - 1) \div 4
         c == (n - 1) % 4
     IN  B[4*r + 1] * A[c + 1] + B[4*r + 2] * A[4 + c + 1]
       + B[4*r + 3] * A[8 + c + 1] + B[4*r + 4] * A[12 + c + 1]]

\* The product written out in applyMatrixOperation: entry 4r+c of the result
\* is the sum over k of A[4r+k] * B[4k+c] (indices from 0 in the source).
MatMul(A, B) ==
  [n \in 1..16 |->
     LET r == (n - 1) \div 4
         c == (n - 1) % 4
     IN  A[4*r + 1] * B[c + 1] + A[4*r + 2] * B[4 + c + 1]
       + A[4*r + 3] * B[8 + c + 1] + A[4*r + 4] * B[12 + c + 1]]

\* applyMatrixOperation(A)
ApplyMatrixOperation(s, A) ==
  LET s1 == AssertInputNotNull(s) IN
    IF ~Ok(s1) THEN s1
    ELSE LET matrix == MatMul(A, LastInStack(s1)) IN
      SetMatrix([s1 EXCEPT !.matrixStack = Append(@, matrix)],
                s1.activeInput, matrix)

\* A shiftContent that puts the shift on the other side of the product: it
\* adds (x, y, z) to the last row of A as it stands.
ShiftContentUnscaled(s, x, y, z) ==
  LET A == LastInStack(s) IN
    ApplyAbsoluteMatrixOperation(s,
      [n \in 1..16 |->
         IF n = 13 THEN A[13] + x * A[16]
         ELSE IF n = 14 THEN A[14] + y * A[16]
         ELSE IF n = 15 THEN A[15] + z * A[16]
         ELSE A[n]])

\* shiftContent(x, y, z): the first twelve entries are those of A, entry
\* 12+c is x * A[c] + y * A[4+c] + z * A[8+c] + A[12+c] (indices from 0 in
\* the source); the matrix goes to applyAbsoluteMatrixOperation.
ShiftContent(s, x, y, z) ==
  LET A == LastInStack(s) IN
    ApplyAbsoluteMatrixOperation(s,
      [n \in 1..16 |->
         IF n <= 12 THEN A[n]
         ELSE x * A[n - 12] + y * A[n - 8] + z * A[n - 4] + A[n]])

\* A loop that pops one matrix more than the code of the subrender pushed.
PopNOneTooMany(stack, n) ==
  IF n <= 0 THEN stack ELSE SubSeq(stack, 1, Len(stack) - n - 1)

\* for (let i = 0; i < diff; ++i) matrixStack.pop(): nothing is popped when
\* diff is negative.
PopN(stack, n) == IF n <= 0 THEN stack ELSE SubSeq(stack, 1, Len(stack) - n)

\* The finally block of subrender/subrenderWithArg, entered with the stack
\* length `preRunLength` and the input `input` read at the call.
SubrenderFinally(s, input, preRunLength) ==
  LET diff == Len(s.matrixStack) - preRunLength IN
    IF diff = 0 THEN s
    ELSE LET s1 == [s EXCEPT !.matrixStack = PopN(@, diff)] IN
      IF preRunLength - 1 < Len(s1.matrixStack)
        THEN SetMatrix(s1, input, s1.matrixStack[preRunLength])
        ELSE LET s2 == LoadGL(s1, input) IN
               IF Ok(s2) THEN Throw(s2, ErrTypeError) ELSE s2

\* The closure useMatrixStack hands to onRenderComplete.
ResetStack(s) ==
  [s EXCEPT !.matrixStack = SubSeq(@, 1, IF Len(@) > 1 THEN 1 ELSE Len(@)),
            !.activeInput = Null]

\* The closure ProgramInput.loadGL hands to onRenderComplete.
ClearInput(s, i) ==
  [s EXCEPT !.maybeGL[i] = Null, !.maybeLoc[i] = NoLoc]

\* ------------------------------------------ renderInProgram: the finally

\* A renderInProgram that tells every callback that the render went well.
CallbackFlagAlwaysFalse(didError) == FALSE

\* The flag renderInProgram passes to an end-of-render callback.
CallbackFlag(didError) == didError

NoCallback == [cb |-> Callback("none", Null), inBody |-> FALSE]

\* The observer's note of one call of a callback: the callback, the flag it
\* got, getProgram() at the call, and the oldest callback then pending.
Invocation(s, cb, didError) ==
  [cb |-> cb, flag |-> CallbackFlag(didError), program |-> GetProgram(s),
   expected |-> IF s.pending = << >> THEN NoCallback ELSE Head(s.pending)]

\* toCall.forEach over the callbacks `rest` not called yet, up to the first
\* closure of the caller (the control goes to caller code there) or to the
\* end of the array.
RECURSIVE RunCallbacks(_, _, _)
RunCallbacks(s, rest, didError) ==
  IF rest = << >> THEN [s |-> s, rest |-> rest, waits |-> FALSE]
  ELSE LET cb == Head(rest)
           s1 == [s EXCEPT !.invoked = Append(@, Invocation(s, cb, didError)),
                           !.pending = IF @ = << >> THEN @ ELSE Tail(@)]
       IN  IF cb.kind = "user" THEN [s |-> s1, rest |-> Tail(rest), waits |-> TRUE]
           ELSE RunCallbacks(
                  IF cb.kind = "resetStack" THEN ResetStack(s1)
                                            ELSE ClearInput(s1, cb.input),
                  Tail(rest), didError)

\* A renderInProgram that resets activeProgram after the try block instead
\* of in the finally block.
EndRenderOnSuccessOnly(s, didError) ==
  IF didError THEN s ELSE [s EXCEPT !.activeProgram = Null]

\* The last statement of the finally block: it runs whether or not the
\* render code threw.
EndRender(s, didError) == [s EXCEPT !.activeProgram = Null]

\* A renderInProgram without the try/catch around onEnd(didError): the error
\* of a callback leaves forEach and is the error of renderInProgram.
OnCallbackErrorUncaught(rf, error) ==
  [rf EXCEPT !.toCall = << >>, !.didError = TRUE, !.err = error]

\* catch (error) { console.error(error) } around each callback: the frame of
\* renderInProgram is as it was.
OnCallbackError(rf, error) == rf

\* -------------------------------------------------------------------- raii

\* CLEANABLES.get(obj) of an object without an entry, and an entry.
NoRecord == [present |-> FALSE, code |-> << >>]
Record(code) == [present |-> TRUE, code |-> code]

\* What an observer notes of one cleanUpObject(obj): the object, the
\* closures its entry held, the closures called and the errors they threw.
NoClean == [obj |-> Null, toRun |-> << >>, called |-> << >>, errors |-> << >>]

\* A buildCleanable that overwrites the entry the object had.
SetCleanableReplacing(cleanables, result, cleanUpCode) ==
  [cleanables EXCEPT ![result] = Record(cleanUpCode)]

\* CLEANABLES.set(result, prior ? prior.concat(cleanUpCode) : cleanUpCode)
SetCleanable(cleanables, result, cleanUpCode) ==
  LET prior == cleanables[result] IN
    [cleanables EXCEPT ![result] =
       Record(IF prior.present THEN prior.code \o cleanUpCode ELSE cleanUpCode)]

\* What an observer notes of a runAndCleanOnError / buildCleanable that
\* ended: the object it returned and the entry that object had, the
\* closures registered in its array, and after a failure the error of the
\* code, the closures called and the errors they threw.
NoScope ==
  [kind |-> Null, result |-> Null, prior |-> NoRecord, registered |-> << >>,
   failure |-> Null, called |-> << >>, errors |-> << >>]

\* The catch block of cleanUpObject, on the frame f of the call.  Its
\* parameter `error` hides the variable `error` of the function, so that
\* `error = error` leaves the latter null.
CleanUpCatch(f, error) ==
  IF f.didError THEN f ELSE [f EXCEPT !.didError = TRUE]

\* ------------------------------------------------------ makeAndLinkProgram

\* The WebGL objects of one makeAndLinkProgram call.
GLParts == {"vertex", "fragment", "program"}
NoGLObject == [created |-> FALSE, deletes |-> 0]
NoLink == [obj |-> Null, status |-> << >>, log |-> Null]

\* () => void gl.deleteShader(glShader) / () => void gl.deleteProgram(glProgram)
DeleteClosure(obj, part) == [of |-> obj, part |-> part]

CompileError(shaderName, log) == "Failed to compile " \o shaderName \o ": " \o log
LinkError(name, log) == "Failed to link " \o name \o " program: " \o log

\* A buildShader that registers deleteShader only once the shader compiled.
BuildShaderRegistersLate(l, obj, part, compiled, log) ==
  LET l1 == [l EXCEPT !.gpu[obj][part].created = TRUE]
  IN  IF compiled
        THEN [l1 EXCEPT !.cleanUpCode = Append(@, DeleteClosure(obj, part))]
        ELSE [l1 EXCEPT !.thrown = CompileError(part, log)]

\* buildShader(gl, gl.createShader(..), shader) inside the code of
\* makeAndLinkProgram; l holds the WebGL objects, the array cleanUpCode of
\* the buildCleanable call and the pending exception.
BuildShader(l, obj, part, compiled, log) ==
  LET l1 == [l EXCEPT !.gpu[obj][part].created = TRUE,
                      !.cleanUpCode = Append(@, DeleteClosure(obj, part))]
  IN  IF compiled THEN l1
      ELSE [l1 EXCEPT !.thrown = CompileError(part, log)]

\* The code makeAndLinkProgram gives to buildCleanable; status tells which
\* of COMPILE_STATUS (vertex, fragment) and LINK_STATUS the context reports.
MakeAndLinkCode(l, obj, status, log) ==
  LET l1 == BuildShader(l, obj, "vertex", status.vertex, log)
      l2 == IF l1.thrown # Null THEN l1
            ELSE BuildShader(l1, obj, "fragment", status.fragment, log)
      l3 == IF l2.thrown # Null THEN l2
            ELSE [l2 EXCEPT !.gpu[obj]["program"].created = TRUE,
                            !.cleanUpCode = Append(@, DeleteClosure(obj, "program"))]
  IN  IF l3.thrown # Null \/ status.link THEN l3
      ELSE [l3 EXCEPT !.thrown = LinkError(obj, log)]

\* forEach over closures of makeAndLinkProgram: each calls deleteShader /
\* deleteProgram on its object.
RECURSIVE RunDeleteClosures(_, _)
RunDeleteClosures(g, code) ==
  IF code = << >> THEN g
  ELSE RunDeleteClosures(
         [g EXCEPT ![Head(code).of][Head(code).part].deletes = @ + 1],
         Tail(code))

\* ------------------------------------------------------------------ frames
RenderFrame(p) ==
  [kind |-> "render", program |-> p, phase |-> "body", didError |-> TRUE,
   err |-> Null, toCall |-> << >>, ret |-> Undefined]
CallbackFrame == [kind |-> "cb"]
ScopeFrame(input, preRunLength, before) ==
  [kind |-> "scope", input |-> input,
   preRunLength |-> preRunLength, before |-> before]

Top == frames[Len(frames)]
Below == SubSeq(frames, 1, Len(frames) - 1)
Nesting == Cardinality({k \in DOMAIN frames : frames[k].kind = "scope"})

\* What the last library call did: how it ended ("return", "throw", or
\* "called" when it handed the control to a closure of the caller), the
\* error it threw and the functions it called on the context.
Event(op, outcome, error, gl) ==
  [op |-> op, outcome |-> outcome, error |-> error, gl |-> gl,
   input |-> Null, preRunLength |-> 0, before |-> NoMatrix,
   value |-> Undefined]

Outcome(s) == IF Ok(s) THEN "return" ELSE "throw"

\* What an observer notes of one render: its program; whether its code has
\* ended, by a throw, with which error; the length of codeOnRenderEnd at
\* that moment; the callbacks called since; the errors given to
\* console.error.
NoOutcome ==
  [program |-> Null, ended |-> FALSE, threw |-> FALSE, error |-> Null,
   queued |-> 0, calls |-> 0, reported |-> << >>, returned |-> Undefined]

UserCallbacks(queue) ==
  Cardinality({k \in DOMAIN queue : queue[k].kind = "user"})

InBounds(s) ==
  /\ Len(s.matrixStack) <= MaxStack
  /\ UserCallbacks(s.codeOnRenderEnd) <= MaxUserCallbacks

KeepObserved ==
  bodyOutcome' = IF frames = << >> THEN NoOutcome ELSE bodyOutcome

\* A library call that runs to its end without calling caller code.
Plain(op, s, input) ==
  /\ InBounds(s)
  /\ Commit(s)
  /\ ev' = [Event(op, Outcome(s), s.thrown, s.glc) EXCEPT !.input = input]
  /\ KeepObserved
  /\ UNCHANGED << frames, raiiVars >>

Init ==
  /\ activeProgram = Null
  /\ codeOnRenderEnd = << >>
  /\ maybeGL = [i \in Inputs |-> Null]
  /\ maybeLoc = [i \in Inputs |-> NoLoc]
  /\ activeInput = Null
  /\ matrixStack = << IDENTITY >>
  /\ frames = << >>
  /\ written = [i \in Inputs |-> NoMatrix]
  /\ pending = << >>
  /\ invoked = << >>
  /\ bodyOutcome = NoOutcome
  /\ ev = Event("start", "return", Null, {})
  /\ CLEANABLES = [h \in Handles \cup LinkedPrograms |-> NoRecord]
  /\ activeCleanupCode = 0
  /\ registered = 0
  /\ lastClean = NoClean
  /\ lastScope = NoScope
  /\ runs = [c \in 1..MaxClosures |-> 0]
  /\ failedClean = {}
  /\ gpu = [obj \in LinkedPrograms |-> [part \in GLParts |-> NoGLObject]]
  /\ lastLink = NoLink

\* ----------------------------------------------------------------- actions

\* A renderInProgram without its guard.
RenderRejectsNever(s) == FALSE

\* if (activeProgram) throw ...
RenderRejects(s) == s.activeProgram # Null

\* renderInProgram(program, code), up to the call of code(gl)
RenderInProgram(p) ==
  IF RenderRejects(Cur)
    THEN Plain("renderInProgram", Throw(Cur, ErrNested), Null)
    ELSE /\ activeProgram' = p
         /\ frames' = Append(frames, RenderFrame(p))
         /\ invoked' = << >>
         /\ bodyOutcome' = [NoOutcome EXCEPT !.program = p]
         /\ ev' = Event("renderInProgram", "called", Null, {"useProgram"})
         /\ UNCHANGED << codeOnRenderEnd, maybeGL, maybeLoc, activeInput,
                         matrixStack, written, pending, raiiVars >>

\* The finally block of renderInProgram over the callbacks of rf.toCall not
\* called yet; rf is the frame of renderInProgram, below the frames under it.
\* What renderInProgram returns when code(program.gl) returned `returned`:
\* the call is an expression statement and no return statement follows.
RenderResult(returned) == Undefined

Drain(s, rf, below) ==
  LET r == RunCallbacks(s, rf.toCall, rf.didError) IN
    IF r.waits
      THEN /\ Commit(r.s)
           /\ frames' = below \o << [rf EXCEPT !.toCall = r.rest], CallbackFrame >>
           /\ ev' = Event("onEnd", "called", Null, {})
           /\ UNCHANGED raiiVars
      ELSE LET s1 == EndRender(r.s, rf.didError) IN
           /\ Commit(s1)
           /\ frames' = below
           /\ ev' = [Event("renderInProgram.exit",
                           IF rf.didError THEN "throw" ELSE "return", rf.err, {})
                       EXCEPT !.value = rf.ret]
           /\ UNCHANGED raiiVars

\* code(gl) returns e (threw = FALSE) or throws e: the finally block starts.
RenderCodeEnds(threw, e) ==
  /\ frames # << >>
  /\ Top.kind = "render"
  /\ Top.phase = "body"
  /\ Drain([Cur EXCEPT !.codeOnRenderEnd = << >>],
           [Top EXCEPT !.phase = "drain", !.didError = threw,
                       !.err = IF threw THEN e ELSE Null,
                       !.ret = RenderResult(IF threw THEN Undefined ELSE e),
                       !.toCall = codeOnRenderEnd],
           Below)
  /\ bodyOutcome' = [bodyOutcome EXCEPT !.ended = TRUE, !.threw = threw,
                                        !.error = IF threw THEN e ELSE Null,
                                        !.queued = Len(codeOnRenderEnd),
                                        !.calls = Len(invoked'),
                                        !.returned =
                                          IF threw THEN Undefined ELSE e]

\* An end-of-render callback of the caller returns or throws e.
CallbackEnds(threw, e) ==
  /\ frames # << >>
  /\ Top.kind = "cb"
  /\ LET rf == frames[Len(frames) - 1]
         rf1 == IF threw THEN OnCallbackError(rf, e) ELSE rf
     IN  Drain(Cur, rf1, SubSeq(frames, 1, Len(frames) - 2))
  /\ bodyOutcome' = [bodyOutcome EXCEPT
                       !.calls = @ + Len(invoked'),
                       !.reported = IF threw THEN Append(@, e) ELSE @]

\* onRenderComplete(code) called by caller code
CallOnRenderComplete ==
  Plain("onRenderComplete", OnRenderComplete(Cur, "user", Null), Null)

\* input.setMatrix(matrix) called by caller code
CallSetMatrix(i, m) ==
  Plain("setMatrix", SetMatrix(Cur, i, m), i)

\* useMatrixStack(input)
CallUseMatrixStack(i) == Plain("useMatrixStack", UseMatrixStack(Cur, i), i)

\* applyAbsoluteMatrixOperation(matrix)
CallApplyAbsolute(m) ==
  Plain("applyAbsoluteMatrixOperation", ApplyAbsoluteMatrixOperation(Cur, m), Null)

\* applyMatrixOperation(A)
CallApplyMatrixOperation(m) ==
  Plain("applyMatrixOperation", ApplyMatrixOperation(Cur, m), Null)

\* shiftContent(x, y, z) with shift = << x, y, z >>
CallShiftContent(shift) ==
  Plain("shiftContent", ShiftContent(Cur, shift[1], shift[2], shift[3]), Null)

\* subrender(code) / subrenderWithArg(code, arg), up to the call of code
CallSubrender(fn) ==
  LET s1 == AssertInputNotNull(Cur) IN
    IF ~Ok(s1) THEN Plain(fn, s1, Null)
    ELSE IF GetProgram(s1) = Null
      \* getProgram().gl throws inside the try; the finally block finds diff = 0
      THEN Plain(fn, Throw(SubrenderFinally(s1, s1.activeInput, Len(s1.matrixStack)),
                           ErrTypeError), Null)
      ELSE /\ Nesting < MaxNest
           /\ frames' = Append(frames, ScopeFrame(s1.activeInput,
                                   Len(s1.matrixStack), written[s1.activeInput]))
           /\ ev' = Event(fn, "called", Null, {})
           /\ invoked' = << >>
           /\ UNCHANGED << activeProgram, codeOnRenderEnd, maybeGL, maybeLoc,
                           activeInput, matrixStack, written, pending,
                           bodyOutcome, raiiVars >>

\* The code of a subrender returns or throws e: the finally block runs.  An
\* error of the finally block replaces the one of the code.
SubrenderCodeEnds(threw, e) ==
  /\ frames # << >>
  /\ Top.kind = "scope"
  /\ LET s == SubrenderFinally(Cur, Top.input, Top.preRunLength)
         error == IF ~Ok(s) THEN s.thrown ELSE IF threw THEN e ELSE Null
     IN  /\ Commit(s)
         /\ frames' = Below
         /\ ev' = [Event("subrender.exit",
                         IF error = Null THEN "return" ELSE "throw", error, s.glc)
                     EXCEPT !.input = Top.input,
                            !.preRunLength = Top.preRunLength,
                            !.before = Top.before]
  /\ UNCHANGED << bodyOutcome, raiiVars >>

\* Caller code ends a render or an end-of-render callback, and registers
\* callbacks of its own.
SessionStep ==
  \/ \E p \in Programs : RenderInProgram(p)
  \/ \E v \in ReturnValues : RenderCodeEnds(FALSE, v)
  \/ \E e \in RenderErrors : RenderCodeEnds(TRUE, e)
  \/ CallbackEnds(FALSE, Null)
  \/ \E e \in CallbackErrors : CallbackEnds(TRUE, e)
  \/ CallOnRenderComplete

\* Caller code sets a program input.
InputStep ==
  \E i \in Inputs, m \in SetMatrices : CallSetMatrix(i, m)

\* Caller code works on the matrix stack.
StackStep ==
  \/ \E i \in StackInputs : CallUseMatrixStack(i)
  \/ \E m \in AbsoluteMatrices : CallApplyAbsolute(m)
  \/ \E m \in ComposedMatrices : CallApplyMatrixOperation(m)
  \/ \E fn \in {"subrender", "subrenderWithArg"} : CallSubrender(fn)
  \/ SubrenderCodeEnds(FALSE, Null)
  \/ \E e \in SubrenderErrors : SubrenderCodeEnds(TRUE, e)

\* Renders whose code and callbacks set program inputs.
NextSession == SessionStep \/ InputStep
SpecSession == Init /\ [][NextSession]_vars

\* Renders whose code and callbacks work on the matrix stack.
NextStack == SessionStep \/ StackStep
SpecStack == Init /\ [][NextStack]_vars


\* Renders whose code and callbacks hand the matrix stack to any input and
\* push on it.
UseStep ==
  \/ \E i \in Inputs : CallUseMatrixStack(i)
  \/ \E m \in AbsoluteMatrices : CallApplyAbsolute(m)
NextUse == SessionStep \/ UseStep
SpecUse == Init /\ [][NextUse]_vars

\* Caller code starts a render and ends its code; it registers no
\* end-of-render callback of its own.
RenderStep ==
  \/ \E p \in Programs : RenderInProgram(p)
  \/ RenderCodeEnds(FALSE, Undefined)
  \/ \E e \in RenderErrors : RenderCodeEnds(TRUE, e)

\* Renders whose code composes matrices (a scaling, the identity) and
\* shifts on the stack, inside and outside of subrenders.
ComposeMatrices == {MatB, IDENTITY}
Shifts == {<< 1, 0, 0 >>, << 0, 2, 0 >>}
ComposeStep ==
  \/ \E i \in StackInputs : CallUseMatrixStack(i)
  \/ \E m \in ComposeMatrices : CallApplyMatrixOperation(m)
  \/ \E shift \in Shifts : CallShiftContent(shift)
  \/ CallSubrender("subrender")
  \/ SubrenderCodeEnds(FALSE, Null)
  \/ \E e \in SubrenderErrors : SubrenderCodeEnds(TRUE, e)
NextCompose == RenderStep \/ ComposeStep
SpecCompose == Init /\ [][NextCompose]_vars

\* Renders whose code and callbacks push absolute matrices and run
\* subrenders.
ScopeStep ==
  \/ \E i \in StackInputs : CallUseMatrixStack(i)
  \/ \E m \in AbsoluteMatrices : CallApplyAbsolute(m)
  \/ \E fn \in {"subrender", "subrenderWithArg"} : CallSubrender(fn)
  \/ SubrenderCodeEnds(FALSE, Null)
  \/ \E e \in SubrenderErrors : SubrenderCodeEnds(TRUE, e)
NextScope == SessionStep \/ ScopeStep
SpecScope == Init /\ [][NextScope]_vars

\* ------------------------------------------------------------ raii actions

\* A runAndCleanOnError / buildCleanable that forgets the array it found in
\* activeCleanupCode.
CleanupScopeFrameNoParent(kind, parentCode) ==
  [kind |-> kind, parentCode |-> 0, cleanUpCode |-> << >>,
   phase |-> "code", rest |-> << >>, err |-> Null,
   seen |-> [NoScope EXCEPT !.kind = kind]]

\* The frame of a runAndCleanOnError ("run") or buildCleanable ("build")
\* call: its parentCode, its array cleanUpCode, and, once its code has
\* failed, the closures forEach has not called yet and the pending error;
\* `seen` are the observer's notes.
CleanupScopeFrame(kind, parentCode) ==
  [kind |-> kind, parentCode |-> parentCode, cleanUpCode |-> << >>,
   phase |-> "code", rest |-> << >>, err |-> Null,
   seen |-> [NoScope EXCEPT !.kind = kind]]

\* The frame of a cleanUpObject call: the closures forEach has not called
\* yet, didError and error, and the observer's notes.
CleanFrame(obj, toRun) ==
  [kind |-> "clean", rest |-> toRun, didError |-> FALSE, error |-> Null,
   seen |-> [NoClean EXCEPT !.obj = obj, !.toRun = toRun]]

\* The frame of a clean-up closure of the caller.
ClosureFrame(closure) == [kind |-> "closure", closure |-> closure]

ScopeDepth ==
  Cardinality({k \in DOMAIN frames : frames[k].kind \in {"run", "build", "clean"}})

ScopeName(kind) == IF kind = "run" THEN "runAndCleanOnError" ELSE "buildCleanable"

\* The observer counts a call of the closure.
Counted(closure) == [runs EXCEPT ![closure] = @ + 1]

\* runAndCleanOnError(code) / buildCleanable(code), up to the call of code()
CallCleanupScope(kind) ==
  /\ ScopeDepth < MaxScopes
  /\ frames' = Append(frames, CleanupScopeFrame(kind, activeCleanupCode))
  /\ activeCleanupCode' = Len(frames) + 1
  /\ ev' = Event(ScopeName(kind), "called", Null, {})
  /\ lastClean' = NoClean
  /\ lastScope' = NoScope
  /\ UNCHANGED << sessionVars, linkVars, CLEANABLES, registered, runs, failedClean >>

\* onCleanUp(cleanup); the closure is named by the number of its registration
CallOnCleanUp ==
  IF activeCleanupCode # 0
    THEN /\ registered < MaxClosures
         /\ frames' = [frames EXCEPT ![activeCleanupCode].cleanUpCode =
                                        Append(@, registered + 1)]
         /\ registered' = registered + 1
         /\ ev' = Event("onCleanUp", "return", Null, {})
         /\ lastClean' = NoClean
         /\ lastScope' = NoScope
         /\ UNCHANGED << sessionVars, linkVars, CLEANABLES, activeCleanupCode, runs,
                         failedClean >>
    ELSE /\ ev' = Event("onCleanUp", "throw", ErrNotInScope, {})
         /\ lastClean' = NoClean
         /\ lastScope' = NoScope
         /\ UNCHANGED << sessionVars, linkVars, frames, CLEANABLES, activeCleanupCode,
                         registered, runs, failedClean >>

\* A finally block that calls the closures after a success too.
RunsCleanUpAlways(success) == TRUE

\* if (!success) cleanUpCode.forEach(...)
RunsCleanUp(success) == ~success

\* How a call ends whose finally block has completed: the code's return or
\* the code's error goes on.
ScopeExit(kind, error) ==
  IF error = Null THEN Event(ScopeName(kind) \o ".exit", "return", Null, {})
  ELSE Event(ScopeName(kind) \o ".exit", "throw", error, {})

\* A finally block that hands the closures of a call that succeeded to the
\* array the call found in activeCleanupCode.
AfterSuccessMerging(below, f) ==
  IF f.parentCode = 0 THEN below
  ELSE [below EXCEPT ![f.parentCode].cleanUpCode = @ \o f.cleanUpCode]

\* The frames under a call that succeeded: the finally block does nothing
\* with cleanUpCode, no array under it changes.
AfterSuccess(below, f) == below

\* The finally block of runAndCleanOnError and of buildCleanable, on the
\* frame f of the call with the frames `below` under it: activeCleanupCode
\* is parentCode again, and after a failure with the error `error` the
\* closures of cleanUpCode are called in turn.
CleanupScopeFinally(f, below, success, error) ==
  LET seen == [f.seen EXCEPT !.registered = f.cleanUpCode, !.failure = error] IN
    /\ activeCleanupCode' = f.parentCode
    /\ IF ~RunsCleanUp(success) \/ f.cleanUpCode = << >>
         THEN /\ frames' = IF success THEN AfterSuccess(below, f) ELSE below
              /\ ev' = ScopeExit(f.kind, error)
              /\ lastScope' = seen
              /\ runs' = runs
         ELSE /\ frames' = below \o
                   << [f EXCEPT !.phase = "cleanup", !.err = error,
                                !.rest = Tail(f.cleanUpCode), !.seen = seen],
                      ClosureFrame(Head(f.cleanUpCode)) >>
              /\ ev' = Event("onError", "called", Null, {})
              /\ lastScope' = NoScope
              /\ runs' = Counted(Head(f.cleanUpCode))

\* The code of a runAndCleanOnError returns or throws e.
RunCodeEnds(threw, e) ==
  /\ frames # << >>
  /\ Top.kind = "run"
  /\ Top.phase = "code"
  /\ CleanupScopeFinally(Top, Below, ~threw, e)
  /\ lastClean' = NoClean
  /\ UNCHANGED << sessionVars, linkVars, CLEANABLES, registered, failedClean >>

\* The code of a buildCleanable returns result: an object, or something
\* that is none ("notAnObject").
BuildCodeReturns(result) ==
  /\ frames # << >>
  /\ Top.kind = "build"
  /\ Top.phase = "code"
  /\ IF result \notin Handles
       THEN /\ CleanupScopeFinally(Top, Below, FALSE, ErrNonObject)
            /\ UNCHANGED << CLEANABLES, failedClean >>
       ELSE /\ CLEANABLES' = SetCleanable(CLEANABLES, result, Top.cleanUpCode)
            /\ failedClean' = failedClean \ {result}
            /\ CleanupScopeFinally(
                 [Top EXCEPT !.seen.result = result,
                             !.seen.prior = CLEANABLES[result]],
                 Below, TRUE, Null)
  /\ lastClean' = NoClean
  /\ UNCHANGED << sessionVars, linkVars, registered >>

\* The code of a buildCleanable throws e.
BuildCodeThrows(e) ==
  /\ frames # << >>
  /\ Top.kind = "build"
  /\ Top.phase = "code"
  /\ CleanupScopeFinally(Top, Below, FALSE, e)
  /\ lastClean' = NoClean
  /\ UNCHANGED << sessionVars, linkVars, CLEANABLES, registered, failedClean >>

\* A cleanUpObject that leaves the entry in CLEANABLES.
DeleteCleanableSkipped(cleanables, obj) == cleanables

\* CLEANABLES.delete(obj)
DeleteCleanable(cleanables, obj) == [cleanables EXCEPT ![obj] = NoRecord]

\* cleanUpObject(obj), up to the call of the first closure
CallCleanUpObject(obj) ==
  LET toRun == CLEANABLES[obj] IN
    IF ~toRun.present
      THEN /\ ev' = Event("cleanUpObject", "return", Null, {})
           /\ lastClean' = [NoClean EXCEPT !.obj = obj]
           /\ lastScope' = NoScope
           /\ UNCHANGED << sessionVars, linkVars, frames, CLEANABLES, activeCleanupCode,
                           registered, runs, failedClean >>
      ELSE /\ CLEANABLES' = DeleteCleanable(CLEANABLES, obj)
           /\ IF toRun.code = << >>
                THEN /\ frames' = frames
                     /\ ev' = Event("cleanUpObject", "return", Null, {})
                     /\ lastClean' = [NoClean EXCEPT !.obj = obj]
                     /\ runs' = runs
                     /\ failedClean' = failedClean \ {obj}
                ELSE /\ ScopeDepth < MaxScopes
                     /\ frames' = frames \o
                          << CleanFrame(obj, toRun.code),
                             ClosureFrame(Head(toRun.code)) >>
                     /\ ev' = Event("code", "called", Null, {})
                     /\ lastClean' = NoClean
                     /\ runs' = Counted(Head(toRun.code))
                     /\ failedClean' = failedClean
           /\ lastScope' = NoScope
           /\ UNCHANGED << sessionVars, linkVars, activeCleanupCode, registered >>

\* A forEach without the try/catch around onError(): the error of a closure
\* ends the finally block and is the error of the call.
OnCleanUpErrorUncaught(f, error) == [f EXCEPT !.rest = << >>, !.err = error]

\* catch (error) { console.error(error) } around each onError(): the frame
\* of the call is as it was.
OnCleanUpError(f, error) == f

\* A clean-up closure returns or throws e, called by the finally block of a
\* failed runAndCleanOnError / buildCleanable.
ClosureOfScopeEnds(threw, e) ==
  /\ Len(frames) >= 2
  /\ Top.kind = "closure"
  /\ frames[Len(frames) - 1].kind \in {"run", "build"}
  /\ LET f0 == frames[Len(frames) - 1]
         f1 == IF threw THEN OnCleanUpError(f0, e) ELSE f0
         f == [f1 EXCEPT !.seen.called = Append(@, Top.closure),
                         !.seen.errors = IF threw THEN Append(@, e) ELSE @]
         below == SubSeq(frames, 1, Len(frames) - 2)
     IN  IF f.rest = << >>
           THEN /\ frames' = below
                /\ ev' = ScopeExit(f.kind, f.err)
                /\ lastScope' = f.seen
                /\ runs' = runs
           ELSE /\ frames' = below \o << [f EXCEPT !.rest = Tail(f.rest)],
                                         ClosureFrame(Head(f.rest)) >>
                /\ ev' = Event("onError", "called", Null, {})
                /\ lastScope' = NoScope
                /\ runs' = Counted(Head(f.rest))
  /\ lastClean' = NoClean
  /\ UNCHANGED << sessionVars, linkVars, CLEANABLES, activeCleanupCode, registered,
                  failedClean >>

\* A clean-up closure returns or throws e, called by cleanUpObject.
ClosureOfCleanUpEnds(threw, e) ==
  /\ Len(frames) >= 2
  /\ Top.kind = "closure"
  /\ frames[Len(frames) - 1].kind = "clean"
  /\ LET f0 == frames[Len(frames) - 1]
         f1 == IF threw THEN CleanUpCatch(f0, e) ELSE f0
         f == [f1 EXCEPT !.rest = Tail(f0.rest),
                         !.seen.called = Append(@, Top.closure),
                         !.seen.errors = IF threw THEN Append(@, e) ELSE @]
         below == SubSeq(frames, 1, Len(frames) - 2)
     IN  IF f.rest = << >>
           THEN \* if (didError) throw error
                /\ frames' = below
                /\ ev' = IF f.didError
                           THEN Event("cleanUpObject.exit", "throw", f.error, {})
                           ELSE Event("cleanUpObject.exit", "return", Null, {})
                /\ lastClean' = f.seen
                /\ runs' = runs
                /\ failedClean' =
                     IF f.didError /\ ~CLEANABLES[f.seen.obj].present
                       THEN failedClean \cup {f.seen.obj}
                       ELSE failedClean \ {f.seen.obj}
           ELSE /\ frames' = below \o << f, ClosureFrame(Head(f.rest)) >>
                /\ ev' = Event("code", "called", Null, {})
                /\ lastClean' = NoClean
                /\ runs' = Counted(Head(f.rest))
                /\ failedClean' = failedClean
  /\ lastScope' = NoScope
  /\ UNCHANGED << sessionVars, linkVars, CLEANABLES, activeCleanupCode, registered >>

\* Caller code that builds objects and cleans them up.
NextRaii ==
  \/ \E kind \in {"run", "build"} : CallCleanupScope(kind)
  \/ CallOnCleanUp
  \/ RunCodeEnds(FALSE, Null)
  \/ \E e \in BuildErrors : RunCodeEnds(TRUE, e)
  \/ \E r \in Handles \cup {"notAnObject"} : BuildCodeReturns(r)
  \/ \E e \in BuildErrors : BuildCodeThrows(e)
  \/ \E obj \in Handles : CallCleanUpObject(obj)
  \/ ClosureOfScopeEnds(FALSE, Null)
  \/ \E e \in ClosureErrors : ClosureOfScopeEnds(TRUE, e)
  \/ ClosureOfCleanUpEnds(FALSE, Null)
  \/ \E e \in ClosureErrors : ClosureOfCleanUpEnds(TRUE, e)
SpecRaii == Init /\ [][NextRaii]_vars

\* ------------------------------------------- makeAndLinkProgram actions

\* makeAndLinkProgram(options): buildCleanable around MakeAndLinkCode.  The
\* code calls no closure of the caller, so the call is one step: the array
\* of the call is current while the code runs and parentCode is current
\* again at the end; the closures it calls after a failure are its own.
MakeAndLinkProgram(obj, status, log) ==
  /\ ~gpu[obj]["vertex"].created
  /\ LET l == MakeAndLinkCode([gpu |-> gpu, cleanUpCode |-> << >>,
                               thrown |-> Null], obj, status, log)
         success == l.thrown = Null
     IN  /\ CLEANABLES' = IF success
                            THEN SetCleanable(CLEANABLES, obj, l.cleanUpCode)
                            ELSE CLEANABLES
         /\ gpu' = IF RunsCleanUp(success)
                     THEN RunDeleteClosures(l.gpu, l.cleanUpCode)
                     ELSE l.gpu
         /\ ev' = [Event("makeAndLinkProgram",
                         IF success THEN "return" ELSE "throw", l.thrown, {})
                     EXCEPT !.input = obj]
  /\ lastLink' = [obj |-> obj, status |-> status, log |-> log]
  /\ lastClean' = NoClean
  /\ lastScope' = NoScope
  /\ UNCHANGED << sessionVars, frames, activeCleanupCode, registered, runs,
                  failedClean >>

\* cleanUpObject(program) of an object makeAndLinkProgram may have returned:
\* the closures of its entry are those of makeAndLinkProgram, which call
\* the context and return.
CallCleanUpProgram(obj) ==
  LET toRun == CLEANABLES[obj] IN
    /\ IF ~toRun.present
         THEN /\ ev' = [Event("cleanUpObject", "return", Null, {})
                          EXCEPT !.input = obj]
              /\ lastClean' = [NoClean EXCEPT !.obj = obj]
              /\ UNCHANGED << CLEANABLES, gpu >>
         ELSE /\ CLEANABLES' = DeleteCleanable(CLEANABLES, obj)
              /\ gpu' = RunDeleteClosures(gpu, toRun.code)
              /\ ev' = [Event("cleanUpObject.exit", "return", Null, {})
                          EXCEPT !.input = obj]
              /\ lastClean' = [NoClean EXCEPT !.obj = obj,
                                 !.toRun = toRun.code, !.called = toRun.code]
    /\ lastScope' = NoScope
    /\ UNCHANGED << sessionVars, frames, activeCleanupCode, registered, runs,
                    failedClean, lastLink >>

\* Caller code that links programs and cleans them up.
LinkStep ==
  \/ \E obj \in LinkedPrograms, log \in InfoLogs,
        status \in [vertex : BOOLEAN, fragment : BOOLEAN, link : BOOLEAN] :
       MakeAndLinkProgram(obj, status, log)
  \/ \E obj \in LinkedPrograms : CallCleanUpProgram(obj)
SpecLink == Init /\ [][LinkStep]_vars

\* Caller code of every kind: every step of every specification above.
Next ==
  \/ SessionStep
  \/ InputStep
  \/ StackStep
  \/ UseStep
  \/ ScopeStep
  \/ ComposeStep
  \/ NextRaii
  \/ LinkStep
Spec == Init /\ [][Next]_vars

\* ------------------------------------------------------------------ claims

RenderFrames == {k \in DOMAIN frames : frames[k].kind = "render"}
RenderExited == ev.op = "renderInProgram.exit"

\* C1: renders exclude each other.  A renderInProgram called while a
\* program is active throws the usage error, does not call useProgram, does
\* not call its code (no new frame) and leaves activeProgram and
\* codeOnRenderEnd as they were; at most one render is in progress in every
\* state, and it is the one of activeProgram.
C1_OneRender ==
  /\ Cardinality(RenderFrames) <= 1
  /\ \A k \in RenderFrames : frames[k].program = activeProgram
  /\ activeProgram # Null => RenderFrames # {}
C1_RejectedCall ==
  (activeProgram # Null /\ \E p \in Programs : RenderInProgram(p))
    => /\ ev'.outcome = "throw"
       /\ ev'.error = ErrNested
       /\ "useProgram" \notin ev'.gl
       /\ UNCHANGED << activeProgram, codeOnRenderEnd, frames >>
C1_MutualExclusion == []C1_OneRender /\ [][C1_RejectedCall]_vars
\* A nested call was rejected while callbacks were waiting.
C1_Witness ==
  /\ ev.op = "renderInProgram"
  /\ ev.outcome = "throw"
  /\ activeProgram # Null
  /\ codeOnRenderEnd # << >>

\* C2: every accepted renderInProgram leaves the system idle.  When no
\* renderInProgram is on the call stack (it returned or threw),
\* getProgram() is null and the next renderInProgram is not rejected,
\* whether the render code returned or threw and whatever the callbacks did.
C2_IdleAfterRender ==
  RenderFrames = {} => (GetProgram(Cur) = Null /\ ~RenderRejects(Cur))
\* A render whose code threw and one of whose callbacks threw has ended.
C2_Witness ==
  /\ RenderExited
  /\ bodyOutcome.threw
  /\ bodyOutcome.reported # << >>

\* C3: a callback accepted by onRenderComplete while the render code runs is
\* called exactly once when that code has returned or thrown, in the order
\* of acceptance, with a flag that tells whether the code threw, and while
\* getProgram() still is the program of the render.  Every call of a
\* callback is the call of the oldest callback pending, and no callback of
\* the render code is pending once the render has ended.
C3_CalledOnceInOrder ==
  /\ \A k \in DOMAIN invoked :
       /\ invoked[k].cb = invoked[k].expected.cb
       /\ invoked[k].expected.inBody =>
            /\ bodyOutcome.ended
            /\ invoked[k].flag = bodyOutcome.threw
            /\ invoked[k].program = bodyOutcome.program
            /\ invoked[k].program # Null
  /\ RenderFrames = {} => \A k \in DOMAIN pending : ~pending[k].inBody
\* The code of a render threw, and two of its callbacks were called in turn
\* with the flag set.
C3_Witness ==
  /\ Len(invoked) >= 2
  /\ \A k \in DOMAIN invoked : invoked[k].expected.inBody /\ invoked[k].flag
  /\ invoked[1].cb # invoked[2].cb

\* C4: an error of an end-of-render callback never reaches the caller of
\* renderInProgram and does not keep the later callbacks from being called:
\* when renderInProgram ends, every callback that waited at the end of the
\* render code has been called, renderInProgram throws exactly when the
\* render code threw, and then it throws the error of the render code.
C4_CallbackErrorsContained ==
  RenderExited =>
    /\ bodyOutcome.calls = bodyOutcome.queued
    /\ (ev.outcome = "throw") = bodyOutcome.threw
    /\ ev.error = bodyOutcome.error
\* The render code threw, a callback threw too, and another callback was
\* called after it.
C4_Witness ==
  /\ RenderExited
  /\ bodyOutcome.threw
  /\ bodyOutcome.reported # << >>
  /\ bodyOutcome.calls >= 2
  /\ invoked # << >>

\* C5: whenever no program is active the queue of end-of-render callbacks
\* is empty (no callback is left over for a later render), also for
\* callbacks registered by an end-of-render callback.
C5_QueueEmptyWhenIdle ==
  activeProgram = Null => (codeOnRenderEnd = << >> /\ pending = << >>)

\* C6: a setMatrix call on an input writes a uniform only if a program is
\* active and declares the input; otherwise the call throws and writes
\* nothing.
C6_WriteOnlyWhenDeclared ==
  ev.op = "setMatrix" =>
    IF activeProgram # Null /\ ev.input \in InputSet(activeProgram)
      THEN TRUE
      ELSE ev.outcome = "throw" /\ "uniformMatrix4fv" \notin ev.gl

\* C7: whenever no program is active every input is unresolved.
C7_UnresolvedWhenIdle ==
  activeProgram = Null =>
    \A i \in Inputs : maybeGL[i] = Null /\ maybeLoc[i] = NoLoc

\* C8: when a subrender ends, by return or by throw, the stack is as deep
\* as it was when the subrender began and the matrix last written to the
\* driving input is the one written last before the subrender began.
C8_ScopeRestores ==
  ev.op = "subrender.exit" =>
    /\ Len(matrixStack) = ev.preRunLength
    /\ written[ev.input] = ev.before

\* C9: whenever no program is active the matrix stack is the identity alone
\* and no input drives it.
C9_StackResetWhenIdle ==
  activeProgram = Null => (matrixStack = << IDENTITY >> /\ activeInput = Null)

\* C10: cleanUpObject(obj) on an object with an entry removes the entry and
\* calls every closure of the entry in the order of registration, also
\* after a closure that threw; if a closure threw, cleanUpObject throws,
\* and what it throws is the error of the first closure that threw.
C10_FirstErrorRaised ==
  ev.op = "cleanUpObject.exit" =>
    /\ lastClean.called = lastClean.toRun
    /\ lastClean.errors # << >> =>
         (ev.outcome = "throw" /\ ev.error = lastClean.errors[1])
    /\ lastClean.errors = << >> => ev.outcome = "return"

\* C11: cleanUpObject is idempotent.  Every cleanUpObject(obj) leaves obj
\* without an entry, an entry comes into being only when a buildCleanable
\* returns the object, and a cleanUpObject of an object without an entry
\* (cleaned before, with or without an error, or never built) calls no
\* closure, changes nothing and returns.
C11_SecondTeardown ==
  \A obj \in Handles : CallCleanUpObject(obj) =>
    /\ ~CLEANABLES'[obj].present
    /\ ~CLEANABLES[obj].present =>
         /\ ev'.outcome = "return"
         /\ UNCHANGED << frames, runs, CLEANABLES, activeCleanupCode >>
C11_EntryOnlyByBuild ==
  \A obj \in Handles :
    (~CLEANABLES[obj].present /\ CLEANABLES'[obj].present)
      => BuildCodeReturns(obj)
C11_Idempotent == [][C11_SecondTeardown /\ C11_EntryOnlyByBuild]_vars
\* An object whose cleanUpObject threw was cleaned again, and the call
\* returned at once.
C11_Witness ==
  /\ ev.op = "cleanUpObject"
  /\ ev.outcome = "return"
  /\ lastClean.obj \in failedClean
  /\ lastClean.toRun = << >>

\* C12: when the code of a buildCleanable fails (it throws, or returns what
\* is no object) after registering N closures, the call calls all N, in the
\* order of registration, also after a closure that threw; the steps of the
\* failing call leave CLEANABLES as it is; and the call throws the error of
\* the failure, not the error of a closure.
C12_AllCalled ==
  (lastScope.kind = "build" /\ lastScope.failure # Null) =>
    /\ lastScope.called = lastScope.registered
    /\ ev.op = "buildCleanable.exit"
    /\ ev.outcome = "throw"
    /\ ev.error = lastScope.failure
C12_NoRecord ==
  (\/ \E e \in BuildErrors : BuildCodeThrows(e)
   \/ BuildCodeReturns("notAnObject")
   \/ /\ Len(frames) >= 2
      /\ frames[Len(frames) - 1].kind = "build"
      /\ \/ ClosureOfScopeEnds(FALSE, Null)
         \/ \E e \in ClosureErrors : ClosureOfScopeEnds(TRUE, e))
    => CLEANABLES' = CLEANABLES
C12_FailedBuildCleansUp == []C12_AllCalled /\ [][C12_NoRecord]_vars
\* A buildCleanable failed with two closures registered; both were called
\* and both threw.
C12_Witness ==
  /\ lastScope.kind = "build"
  /\ lastScope.failure # Null
  /\ Len(lastScope.registered) = 2
  /\ Len(lastScope.errors) = 2

\* C13: when the code of a buildCleanable returns the object h, the call
\* calls no closure, and afterwards the entry of h is the entry h had before
\* (if any) followed by the closures registered in the array of this call,
\* in the order of registration; the entries of the other objects are as
\* they were.
C13_Appended ==
  (lastScope.kind = "build" /\ lastScope.failure = Null) =>
    /\ lastScope.called = << >>
    /\ ev.op = "buildCleanable.exit"
    /\ ev.outcome = "return"
    /\ CLEANABLES[lastScope.result].present
    /\ CLEANABLES[lastScope.result].code =
         lastScope.prior.code \o lastScope.registered
C13_OthersKept ==
  \A h \in Handles : BuildCodeReturns(h) =>
    /\ runs' = runs
    /\ frames' = Below
    /\ \A o \in Handles \ {h} : CLEANABLES'[o] = CLEANABLES[o]
C13_SuccessfulBuildRecords == []C13_Appended /\ [][C13_OthersKept]_vars
\* A buildCleanable with a closure registered returned an object that had an
\* entry with a closure already.
C13_Witness ==
  /\ lastScope.kind = "build"
  /\ lastScope.failure = Null
  /\ lastScope.prior.present
  /\ lastScope.prior.code # << >>
  /\ lastScope.registered # << >>

\* C14: no clean-up closure is called more than once for one registration;
\* when a runAndCleanOnError / buildCleanable has failed every closure
\* registered in its array has been called exactly once, and when a
\* cleanUpObject has ended every closure of the entry it removed has been
\* called exactly once.
C14_AtMostOnce ==
  /\ \A c \in DOMAIN runs : runs[c] <= 1
  /\ lastScope.failure # Null =>
       \A k \in DOMAIN lastScope.registered : runs[lastScope.registered[k]] = 1
  /\ ev.op = "cleanUpObject.exit" =>
       \A k \in DOMAIN lastClean.toRun : runs[lastClean.toRun[k]] = 1
\* A cleanUpObject with two closures ended, a closure of which threw.
C14_Witness ==
  /\ ev.op = "cleanUpObject.exit"
  /\ Len(lastClean.toRun) = 2
  /\ lastClean.errors # << >>

\* C15: makeAndLinkProgram leaks no WebGL object.  Every shader and program
\* object created is deleted at most once, and it is either deleted or
\* owned by the entry of its Program, never both.  When a step fails
\* (vertex compile, fragment compile, link) the objects created so far are
\* deleted, no entry is left, and the error thrown carries the info log;
\* when all steps succeed nothing is deleted and the entry holds the three
\* deleting closures; cleanUpObject(program) then deletes the vertex
\* shader, the fragment shader and the program, in this order.
C15_Expected(link) ==
  IF ~link.status.vertex
    THEN [error |-> CompileError("vertex", link.log), parts |-> {"vertex"}]
  ELSE IF ~link.status.fragment
    THEN [error |-> CompileError("fragment", link.log),
          parts |-> {"vertex", "fragment"}]
  ELSE IF ~link.status.link
    THEN [error |-> LinkError(link.obj, link.log), parts |-> GLParts]
  ELSE [error |-> Null, parts |-> GLParts]
C15_Closures(obj) ==
  << DeleteClosure(obj, "vertex"), DeleteClosure(obj, "fragment"),
     DeleteClosure(obj, "program") >>
C15_NoLeak ==
  /\ \A obj \in LinkedPrograms, part \in GLParts :
       /\ gpu[obj][part].deletes <= 1
       /\ gpu[obj][part].created =>
            (gpu[obj][part].deletes = 1) # CLEANABLES[obj].present
       /\ ~gpu[obj][part].created => gpu[obj][part].deletes = 0
  /\ ev.op = "makeAndLinkProgram" =>
       LET obj == lastLink.obj
           expected == C15_Expected(lastLink)
       IN  /\ ev.error = expected.error
           /\ (ev.outcome = "throw") = (expected.error # Null)
           /\ \A part \in GLParts :
                gpu[obj][part].created = (part \in expected.parts)
           /\ IF ev.outcome = "throw"
                THEN ~CLEANABLES[obj].present
                ELSE /\ CLEANABLES[obj].present
                     /\ CLEANABLES[obj].code = C15_Closures(obj)
  /\ (ev.op = "cleanUpObject.exit" /\ lastClean.obj \in LinkedPrograms) =>
       /\ lastClean.called = C15_Closures(lastClean.obj)
       /\ \A part \in GLParts : gpu[lastClean.obj][part].deletes = 1
\* The fragment shader of a makeAndLinkProgram did not compile: the call
\* threw and both shaders are deleted, while another Program was linked and
\* cleaned up.
C15_Witness ==
  /\ ev.op = "makeAndLinkProgram"
  /\ ev.outcome = "throw"
  /\ lastLink.status.vertex
  /\ ~lastLink.status.fragment
  /\ gpu[lastLink.obj]["fragment"].deletes = 1
  /\ \E obj \in LinkedPrograms : gpu[obj]["program"].deletes = 1

\* C16: a matrix stack operation (applyAbsoluteMatrixOperation,
\* applyMatrixOperation and the functions built on them, subrender,
\* subrenderWithArg) called while no input drives the stack throws a usage
\* error, leaves the stack as it is, writes nothing to the context and
\* calls no code; and no such operation succeeds while no program is active.
C16_StackOperation ==
  \/ \E m \in AbsoluteMatrices : CallApplyAbsolute(m)
  \/ \E m \in ComposedMatrices : CallApplyMatrixOperation(m)
  \/ \E fn \in {"subrender", "subrenderWithArg"} : CallSubrender(fn)
C16_Rejected ==
  /\ (activeInput = Null /\ C16_StackOperation) =>
       /\ ev'.outcome = "throw"
       /\ ev'.error \in {ErrNoUse, ErrNoRender}
       /\ ev'.gl = {}
       /\ UNCHANGED << matrixStack, written, frames >>
  /\ (activeProgram = Null /\ C16_StackOperation) => ev'.outcome = "throw"
C16_NoDriverNoOperation == [][C16_Rejected]_vars

\* C17: useMatrixStack(input) called while an input drives the stack (the
\* same or another), or while no program is active, throws a usage error,
\* leaves the driving input, the stack and codeOnRenderEnd as they are and
\* writes nothing to the context.
C17_Rejected ==
  \A i \in Inputs :
    ((activeInput # Null \/ activeProgram = Null) /\ CallUseMatrixStack(i)) =>
      /\ ev'.outcome = "throw"
      /\ ev'.error \in {ErrInUse, ErrOutside}
      /\ ev'.gl = {}
      /\ UNCHANGED << activeInput, matrixStack, codeOnRenderEnd, written,
                      maybeGL, frames >>
C17_OneDriver == [][C17_Rejected]_vars
\* useMatrixStack was rejected for an input other than the one that drives
\* the stack, with a matrix pushed.
C17_Witness ==
  /\ ev.op = "useMatrixStack"
  /\ ev.outcome = "throw"
  /\ ev.error = ErrInUse
  /\ activeInput # Null
  /\ ev.input # activeInput
  /\ Len(matrixStack) > 1

\* C18: when the code given to renderInProgram returns, renderInProgram
\* returns the value the code returned.
C18_ReturnsResult ==
  (RenderExited /\ ev.outcome = "return") => ev.value = bodyOutcome.returned

\* C19 as claimed: when a runAndCleanOnError or buildCleanable called by the
\* code of a buildCleanable has returned, the closures registered in its
\* array are in the array of the outer call (to be called if the outer call
\* fails, to be in the entry of its object if it succeeds).
C19_Nested ==
  /\ lastScope.kind # Null
  /\ lastScope.failure = Null
  /\ lastScope.registered # << >>
  /\ frames # << >>
  /\ Top.kind = "build"
  /\ Top.phase = "code"
C19_Holds(closure, code) == \E k \in DOMAIN code : code[k] = closure
C19_Accumulates ==
  C19_Nested =>
    \A k \in DOMAIN lastScope.registered :
      C19_Holds(lastScope.registered[k], Top.cleanUpCode)

\* C19 as the code has it: the closures of the inner call stay with the
\* inner call.  When it has returned they have not been called and are in
\* no array of a call in progress; those of a runAndCleanOnError are in no
\* entry either, those of a buildCleanable are in the entry of the object
\* the inner call returned and in no other.
C19_StaysWithInner ==
  C19_Nested =>
    \A k \in DOMAIN lastScope.registered :
      LET closure == lastScope.registered[k] IN
        /\ runs[closure] = 0
        /\ \A j \in DOMAIN frames :
             frames[j].kind \in {"run", "build"} =>
               ~C19_Holds(closure, frames[j].cleanUpCode)
        /\ \A h \in Handles :
             C19_Holds(closure, CLEANABLES[h].code)
               <=> (lastScope.kind = "build" /\ h = lastScope.result)
\* A runAndCleanOnError with a closure registered returned to the code of a
\* buildCleanable that has a closure of its own.
C19_Witness ==
  /\ C19_Nested
  /\ lastScope.kind = "run"
  /\ Top.cleanUpCode # << >>

\* C20: activeCleanupCode follows the call stack.  In every state it is the
\* array of the innermost runAndCleanOnError / buildCleanable whose code is
\* running, and null when no code of such a call is running (so the array
\* of the enclosing call is current again when a call ends, by return or by
\* throw); onCleanUp appends to that array and to no other, and with no
\* array current it throws the usage error and registers nothing.
C20_Running ==
  {k \in DOMAIN frames :
     frames[k].kind \in {"run", "build"} /\ frames[k].phase = "code"}
C20_Innermost ==
  IF C20_Running = {} THEN 0
  ELSE CHOOSE k \in C20_Running : \A j \in C20_Running : j <= k
C20_Current == activeCleanupCode = C20_Innermost
C20_Registers ==
  CallOnCleanUp =>
    IF C20_Innermost = 0
      THEN /\ ev'.outcome = "throw"
           /\ ev'.error = ErrNotInScope
           /\ UNCHANGED << frames, registered, CLEANABLES >>
      ELSE /\ ev'.outcome = "return"
           /\ frames' = [frames EXCEPT ![C20_Innermost].cleanUpCode =
                                          Append(@, registered')]
           /\ UNCHANGED CLEANABLES
C20_StackDiscipline == []C20_Current /\ [][C20_Registers]_vars
\* A call nested in the code of another has ended by a throw, after its
\* closures were called, and the array of the outer call is current again.
C20_Witness ==
  /\ lastScope.failure # Null
  /\ lastScope.called # << >>
  /\ activeCleanupCode # 0
  /\ activeCleanupCode = Len(frames)

\* C21: the matrix stack always holds at least one matrix and its bottom
\* entry is the identity.  While the code of a subrender runs the stack is
\* at least as deep as it was when the subrender was called, so that the
\* finally block of a subrender never pops the identity and never hands a
\* missing matrix to the input: no subrender ends with the TypeError of
\* uniformMatrix4fv.
C21_Baseline == Len(matrixStack) >= 1 /\ matrixStack[1] = IDENTITY
C21_DepthKept ==
  \A k \in DOMAIN frames :
    frames[k].kind = "scope" => Len(matrixStack) >= frames[k].preRunLength
C21_NoMissingMatrix ==
  /\ ev.op = "subrender.exit" => ev.error # ErrTypeError
  /\ \A i \in Inputs : written[i] = NoMatrix \/ Len(written[i]) = 16
C21_NeverBelowBaseline ==
  C21_Baseline /\ C21_DepthKept /\ C21_NoMissingMatrix

\* a subrender whose code pushed has ended: its finally block popped down
\* to the depth of the call and wrote the matrix found there
C21_Witness ==
  /\ ev.op = "subrender.exit"
  /\ "uniformMatrix4fv" \in ev.gl
  /\ Len(matrixStack) = ev.preRunLength
  /\ written[ev.input] = matrixStack[ev.preRunLength]

\* The translation by (x, y, z) in the layout of the library (the one of
\* uniformMatrix4fv without transposition, and of rotateAboutZ).
C22_Translation(x, y, z) ==
  << 1, 0, 0, 0,
     0, 1, 0, 0,
     0, 0, 1, 0,
     x, y, z, 1 >>

\* C22: shiftContent(x, y, z) is a composition.  Whatever the stack holds,
\* the call does what applyMatrixOperation does with the translation matrix
\* of (x, y, z): it pushes the same matrix, writes the same matrix to the
\* input that drives the stack, and fails with the same error.  So with
\* the shift by (1,0,0) on the stack, a shiftContent(0,2,0) inside a
\* subrender writes the shift by (1,2,0), and the end of the subrender
\* writes the shift by (1,0,0) again (the input being one that
\* useMatrixStack could resolve).
C22_SameAsComposed ==
  \A shift \in Shifts :
    CallShiftContent(shift) =>
      LET s == ApplyMatrixOperation(
                 Cur, C22_Translation(shift[1], shift[2], shift[3]))
      IN  /\ matrixStack' = s.matrixStack
          /\ written' = s.written
          /\ ev'.error = s.thrown
          /\ ev'.gl = s.glc
C22_InsideScope ==
  ( /\ frames # << >>
    /\ Top.kind = "scope"
    /\ activeInput # Null
    /\ matrixStack = << IDENTITY, C22_Translation(1, 0, 0) >>
    /\ CallShiftContent(<< 0, 2, 0 >>)
    /\ ev'.outcome = "return" )
  => /\ written'[activeInput] = C22_Translation(1, 2, 0)
     /\ matrixStack'[3] = C22_Translation(1, 2, 0)
C22_AfterScope ==
  ( /\ frames # << >>
    /\ Top.kind = "scope"
    /\ Top.preRunLength = 2
    /\ maybeGL[Top.input] # Null
    /\ matrixStack = << IDENTITY, C22_Translation(1, 0, 0),
                        C22_Translation(1, 2, 0) >>
    /\ ev'.op = "subrender.exit" )
  => /\ written'[Top.input] = C22_Translation(1, 0, 0)
     /\ matrixStack' = << IDENTITY, C22_Translation(1, 0, 0) >>
C22_ShiftIsComposition ==
  [][C22_SameAsComposed /\ C22_InsideScope /\ C22_AfterScope]_vars

\* inside a subrender called with the shift by (1,0,0) on the stack,
\* shiftContent(0,2,0) has pushed and written the shift by (1,2,0)
C22_Witness ==
  /\ frames # << >>
  /\ Top.kind = "scope"
  /\ Top.preRunLength = 2
  /\ ev.op = "shiftContent"
  /\ ev.outcome = "return"
  /\ matrixStack = << IDENTITY, C22_Translation(1, 0, 0),
                      C22_Translation(1, 2, 0) >>
  /\ written[activeInput] = C22_Translation(1, 2, 0)

\* The product of two 4x4 matrices stored row by row: entry (i, j) is the
\* sum over k of M[i][k] * B[k][j].
RECURSIVE C23_Dot(_, _, _, _, _)
C23_Dot(M, B, i, j, k) ==
  IF k > 3 THEN 0
  ELSE M[4 * i + k + 1] * B[4 * k + j + 1] + C23_Dot(M, B, i, j, k + 1)
C23_Product(M, B) ==
  [n \in 1..16 |-> C23_Dot(M, B, (n - 1) \div 4, (n - 1) % 4, 0)]

\* C23: applyMatrixOperation(M), called while an input drives the stack,
\* pushes exactly one entry, the product M x top, and leaves the entries
\* under it as they were; when it returns it has written that entry to the
\* input.  With M the identity the entry pushed has the 16 values of the
\* top it was pushed on.
C23_Pushes ==
  \A m \in ComposeMatrices :
    ( activeInput # Null /\ CallApplyMatrixOperation(m) ) =>
      LET top == matrixStack[Len(matrixStack)]
          product == C23_Product(m, top)
      IN  /\ matrixStack' = Append(matrixStack, product)
          /\ ev'.outcome = "return" =>
                /\ written'[activeInput] = product
                /\ "uniformMatrix4fv" \in ev'.gl
          /\ m = IDENTITY => matrixStack'[Len(matrixStack')] = top
C23_PushesProduct == [][C23_Pushes]_vars

\* a scaling was composed with a top that does not commute with it (a
\* shift), and the product was written
C23_Witness ==
  /\ ev.op = "applyMatrixOperation"
  /\ ev.outcome = "return"
  /\ Len(matrixStack) = 3
  /\ matrixStack[3] = C23_Product(MatB, matrixStack[2])
  /\ matrixStack[3] # C23_Product(matrixStack[2], MatB)
  /\ written[activeInput] = matrixStack[3]

\* The clearing closure of input i that the last step of the drain called
\* had been registered while the code of this render ran: i was resolved
\* in this render, and the render is not over.
C24_ResolvedInThisRender(i) ==
  /\ activeProgram # Null
  /\ \E k \in DOMAIN invoked :
       /\ invoked[k].cb = Callback("clearInput", i)
       /\ invoked[k].expected.cb = Callback("clearInput", i)
       /\ invoked[k].expected.inBody

\* a setMatrix on an input whose context is cached queries no location and
\* registers no callback
C24_CachedCall ==
  \A i \in Inputs, m \in SetMatrices :
    ( maybeGL[i] # Null /\ CallSetMatrix(i, m) ) =>
      /\ "getUniformLocation" \notin ev'.gl
      /\ codeOnRenderEnd' = codeOnRenderEnd
      /\ maybeGL' = maybeGL /\ maybeLoc' = maybeLoc

\* a setMatrix that fails caches nothing and registers nothing
C24_FailedCall ==
  \A i \in Inputs, m \in SetMatrices :
    ( CallSetMatrix(i, m) /\ ev'.outcome = "throw" ) =>
      /\ codeOnRenderEnd' = codeOnRenderEnd
      /\ maybeGL' = maybeGL /\ maybeLoc' = maybeLoc

\* a setMatrix on an input that was resolved earlier in the render that is
\* still going on queries no location and registers no callback
C24_LaterCall ==
  \A i \in Inputs, m \in SetMatrices :
    ( C24_ResolvedInThisRender(i) /\ CallSetMatrix(i, m) ) =>
      /\ "getUniformLocation" \notin ev'.gl
      /\ codeOnRenderEnd' = codeOnRenderEnd

\* C24: resolving an input is idempotent within a render.  Once an input
\* was resolved, no further setMatrix of the same render queries its
\* location or registers an end-of-render callback, so that every resolved
\* input has exactly one clearing callback; a resolve that fails caches
\* nothing and registers nothing.
C24_ResolveOnce ==
  [][C24_CachedCall /\ C24_FailedCall /\ C24_LaterCall]_vars
C24_WhileCached == [][C24_CachedCall /\ C24_FailedCall]_vars

\* C25: a useMatrixStack(input) that fails installs nothing.  When the call
\* is made with no input driving the stack and throws (no render, the input
\* not among those of the active program, its uniform missing from the
\* shader), no input drives the stack after it: a later useMatrixStack is
\* not rejected as already used, and the stack operations still fail for
\* want of a driver.
C25_NoDriverAfterFailure ==
  \A i \in Inputs :
    ( activeInput = Null /\ CallUseMatrixStack(i) /\ ev'.outcome = "throw" )
      => activeInput' = Null
C25_FailedUseInstallsNothing == [][C25_NoDriverAfterFailure]_vars

\* C26: the context mirrors the stack.  At every point of a render where
\* an input drives the stack, the matrix last written to that input is the
\* top of the matrix stack, also after calls that threw (caller code never
\* sets the driving input itself).
C26_ContextMirrorsStack ==
  ( activeProgram # Null /\ activeInput # Null ) =>
    written[activeInput] = matrixStack[Len(matrixStack)]

====
